---- MODULE Spec2Model ----
(***************************************************************************)
(* RAN simulator: the KPM service model (subscribe / report / delete), the *)
(* E2 agent's dispatch of inbound requests, and the UE registry.           *)
(*                                                                         *)
(* SpecE2 runs the agent, the KPM handlers and the report tasks.           *)
(* SpecUE runs the UE registry, one call at a time.                        *)
(* SpecAgent runs Start and Stop of the agent.                             *)
(* SpecWatch runs the UE registry under concurrent callers and watchers.   *)
(* SpecReport runs the report tasks of two subscriptions, fairly           *)
(* scheduled; SpecCount runs one report task while the UE count changes.   *)
(* SpecStall runs the registry against sinks whose readers may stop.       *)
(* SpecRef runs the registry with the UE pointers its callers hold.        *)
(***************************************************************************)
EXTENDS Integers, Sequences, FiniteSets, TLC

VARIABLES
    subs,        \* Subscription Registry: key -> record [Ticker], Ticker = 0 is nil
    tickers,     \* every time.Ticker created so far: [key, running, buf]
    tasks,       \* every reportIndication goroutine started so far
    sent,        \* indications pushed over the E2 channel, in order
    chanDone,    \* the E2 channel's context is done
    resp,        \* what the last inbound request returned
    crashed,     \* a goroutine panicked
    registered,  \* function ids held by the service model registry
    ues,         \* UE registry: IMSI -> UE
    watchers,    \* UE registry: the live watcher list (sinks, in append order)
    events,      \* per sink, the events the last registry call sent on it
    closed,      \* sinks whose channel has been closed
    ueResp,      \* what the last UE registry call returned
    channel,     \* e2Agent.channel: 0 is nil, else the index of a session
    sessions,    \* every session e2.Connect has opened: [open, closes]
    agentResp,   \* what the last Start or Stop of the agent returned
    notifying,   \* the DestroyUE or MoveUE call that holds the write lock
    watching,    \* per sink, the WatchUEs goroutine started for it
    inbox,       \* per sink, every event its reader has received, in order
    mutations,   \* the successful DestroyUE and MoveUE calls, in lock order
    unread,      \* sinks whose reader has stopped receiving
    held         \* the UE values the last GetUE or List call handed out

e2vars == <<subs, tickers, tasks, sent, chanDone, resp, crashed, registered>>
uevars == <<ues, watchers, events, closed, ueResp>>
agvars == <<channel, sessions, agentResp>>
wvars == <<notifying, watching, inbox, mutations>>
cvars == <<unread, held>>
vars == <<subs, tickers, tasks, sent, chanDone, resp, crashed, registered,
          ues, watchers, events, closed, ueResp,
          channel, sessions, agentResp,
          notifying, watching, inbox, mutations,
          unread, held>>

-----------------------------------------------------------------------------
(* Bounds of the model *)

MaxTasks == 2       \* report goroutines started in one run
MaxSent == 2        \* indications recorded in one run
MaxActions == 2     \* actions carried by one subscription request
MaxDraw == 0        \* rand.Int63n yields 0..MaxDraw or its largest value
MaxCount == 2       \* largest count given to CreateUEs and SetUECount
MaxMutations == 2   \* successful DestroyUE and MoveUE calls of concurrent callers
MaxSessions == 3    \* sessions opened by e2.Connect in one run
MaxCloses == 2      \* Close calls made on one session

-----------------------------------------------------------------------------
(* Requests *)

Kpm == "Kpm"
FuncIds == {Kpm, "Other"}
InstanceIds == {1}
RequesterIds == {1}
ActionTypes == {"REPORT", "INSERT", "POLICY"}
Periods == {"RT_PERIOD_MS10"}
BadPeriod == "unparseable"

ActionNotSupported == "CAUSE_RICREQUEST_ACTION_NOT_SUPPORTED"
Unspecified == "CAUSE_RICREQUEST_UNSPECIFIED"

\* The action lists of a request: the i-th action carries action id i.
ActionLists ==
    UNION {{[i \in 1..n |-> [id |-> i, type |-> ts[i]]] :
               ts \in [1..n -> ActionTypes]} : n \in 0..MaxActions}

OneReport == <<[id |-> 1, type |-> "REPORT"]>>

\* A decoded request. malformed: the requester, function or instance id
\* element is missing. Requests for the Kpm function vary in every field; the
\* malformed request and the request for another function are ones the Kpm
\* handler would admit if it got that far.
SubscriptionRequests ==
    [ranFuncID : {Kpm}, instID : InstanceIds, reqID : RequesterIds,
     actions : ActionLists, period : Periods \cup {BadPeriod},
     malformed : {FALSE}]
    \cup [ranFuncID : {Kpm}, instID : InstanceIds, reqID : {1},
          actions : {OneReport}, period : Periods, malformed : {TRUE}]
    \cup [ranFuncID : FuncIds \ {Kpm}, instID : InstanceIds, reqID : {1},
          actions : {OneReport}, period : Periods, malformed : {FALSE}]

\* Delete and control requests carry no action list and no event trigger.
DeleteRequests ==
    [ranFuncID : {Kpm}, instID : InstanceIds, reqID : RequesterIds,
     actions : {<<>>}, period : {"none"}, malformed : {FALSE}]
    \cup [ranFuncID : {Kpm}, instID : InstanceIds, reqID : {1},
          actions : {<<>>}, period : {"none"}, malformed : {TRUE}]
    \cup [ranFuncID : FuncIds \ {Kpm}, instID : InstanceIds, reqID : {1},
          actions : {<<>>}, period : {"none"}, malformed : {FALSE}]

ControlRequests ==
    [ranFuncID : FuncIds, instID : InstanceIds, reqID : {1},
     actions : {<<>>}, period : {"none"}, malformed : {FALSE}]

NoRequest ==
    [ranFuncID |-> "none", instID |-> 0, reqID |-> 0, actions |-> <<>>,
     period |-> "none", malformed |-> FALSE]

NewID(instID, reqID, ranFuncID) == <<instID, reqID, ranFuncID>>

KeyOf(req) == NewID(req.instID, req.reqID, req.ranFuncID)

Keys == {NewID(i, r, f) : i \in InstanceIds, r \in RequesterIds, f \in FuncIds}

-----------------------------------------------------------------------------
(* Results of a handler *)

\* kind: "response" | "failure" | "error" | "panic" ; err is "nil" unless
\* kind = "error"; handler names the service model whose handler ran.
Result(kind, err, cause, accepted, notAdmitted) ==
    [kind |-> kind, err |-> err, cause |-> cause, accepted |-> accepted,
     notAdmitted |-> notAdmitted, handler |-> "kpm", start |-> FALSE,
     stop |-> 0]

Error(err) == Result("error", err, "none", <<>>, {})

Failure(cause) == Result("failure", "nil", cause, <<>>, {})

-----------------------------------------------------------------------------
(* Subscription Registry (pkg/store/subscriptions) *)

\* Get: the record itself, or NotFound on a miss.
SubscriptionsGet(subID) == IF subID \in DOMAIN subs THEN "nil" ELSE "NotFound"

\* Add: a record with no ticker attached yet.
SubscriptionsAdd(subID) == [k \in DOMAIN subs \cup {subID} |->
                              IF k = subID THEN [Ticker |-> 0] ELSE subs[k]]

-----------------------------------------------------------------------------
(* KPM service model: handlers *)

\* Mutation: insert actions are accepted too.
RECURSIVE ricActionsAccepted_AlsoInsert(_)
ricActionsAccepted_AlsoInsert(actionList) ==
    IF actionList = <<>> THEN <<>>
    ELSE LET action == Head(actionList)
             rest == ricActionsAccepted_AlsoInsert(Tail(actionList))
         IN  IF action.type \in {"REPORT", "INSERT"}
             THEN <<action.id>> \o rest ELSE rest

\* The loop over the action list: report actions are accepted, in order.
RECURSIVE ricActionsAccepted(_)
ricActionsAccepted(actionList) ==
    IF actionList = <<>> THEN <<>>
    ELSE LET action == Head(actionList)
             rest == ricActionsAccepted(Tail(actionList))
         IN  IF action.type = "REPORT" THEN <<action.id>> \o rest ELSE rest

\* The same loop: insert and policy actions go to the not-admitted map, every
\* one with cause "action not supported" (the map's key set is kept).
ricActionsNotAdmitted(actionList) ==
    {actionList[i].id : i \in {j \in 1..Len(actionList) :
                                  actionList[j].type \in {"INSERT", "POLICY"}}}

\* GetRequesterID / GetRanFunctionID / GetRicInstanceID: an error when the
\* element is missing from the request.
GetRequestIDs(request) == IF request.malformed THEN "Invalid" ELSE "nil"

\* getReportPeriod: the period of the event trigger, or an error.
getReportPeriod(request) ==
    IF request.period \in Periods
    THEN [err |-> "nil", interval |-> 10]
    ELSE [err |-> "Invalid", interval |-> 0]

\* Client.RICSubscription returning the period error to the caller instead of
\* a subscription failure.
KpmRICSubscription_PeriodError(request) ==
    IF GetRequestIDs(request) # "nil" THEN Error(GetRequestIDs(request))
    ELSE IF Len(ricActionsAccepted(request.actions)) = 0
         THEN Failure(ActionNotSupported)
    ELSE IF getReportPeriod(request).err # "nil"
         THEN Error(getReportPeriod(request).err)
    ELSE [Result("response", "nil", "none",
                 ricActionsAccepted(request.actions),
                 ricActionsNotAdmitted(request.actions))
          EXCEPT !.start = TRUE]

\* Client.RICSubscription: what it returns; start says the report goroutine
\* is launched.
KpmRICSubscription(request) ==
    IF GetRequestIDs(request) # "nil" THEN Error(GetRequestIDs(request))
    ELSE IF Len(ricActionsAccepted(request.actions)) = 0
         THEN Failure(ActionNotSupported)
    ELSE IF getReportPeriod(request).err # "nil" THEN Failure(Unspecified)
    ELSE [Result("response", "nil", "none",
                 ricActionsAccepted(request.actions),
                 ricActionsNotAdmitted(request.actions))
          EXCEPT !.start = TRUE]

\* Client.RICSubscriptionDelete: what it returns; stop names the ticker it
\* stops. Stop on a nil ticker dereferences nil.
KpmRICSubscriptionDelete(request) ==
    IF GetRequestIDs(request) # "nil" THEN Error(GetRequestIDs(request))
    ELSE IF SubscriptionsGet(KeyOf(request)) # "nil"
         THEN Error(SubscriptionsGet(KeyOf(request)))
    ELSE IF subs[KeyOf(request)].Ticker = 0
         THEN Result("panic", "nil", "none", <<>>, {})
    ELSE [Result("response", "nil", "none", <<>>, {})
          EXCEPT !.stop = subs[KeyOf(request)].Ticker]

\* Client.RICControl
KpmRICControl(request) == Error("NotSupported")

-----------------------------------------------------------------------------
(* E2 agent: dispatch by function id *)

\* ServiceModelRegistry.GetServiceModel
GetServiceModel(ranFuncID) ==
    IF ranFuncID \in registered THEN "nil" ELSE "NotSupported"

\* Mutation: every function id is forwarded to the Kpm handler.
e2AgentDispatch_ForwardsAll(ranFuncID, handlerResult) == handlerResult

\* The switch on the request's function id shared by the three entry points:
\* the Kpm case forwards to the handler, every other id is not supported.
e2AgentDispatch(ranFuncID, handlerResult) ==
    IF ranFuncID = Kpm
    THEN IF GetServiceModel(ranFuncID) # "nil"
         THEN [Error(GetServiceModel(ranFuncID)) EXCEPT !.handler = "none"]
         ELSE handlerResult
    ELSE [Error("NotSupported") EXCEPT !.handler = "none"]

Returned(op, request, r) ==
    [op |-> op, request |-> request, kind |-> r.kind, err |-> r.err,
     cause |-> r.cause, accepted |-> r.accepted,
     notAdmitted |-> r.notAdmitted, handler |-> r.handler]

\* Ticker.Stop: no more ticks are sent; a tick already in the channel stays.
TickerStop(tks, i) ==
    IF i = 0 THEN tks ELSE [tks EXCEPT ![i].running = FALSE]

-----------------------------------------------------------------------------
(* UE registry (pkg/store/ues) *)

minIMSI == 1000000
maxIMSI == 9999999
crntiBase == 90125

NONE == 0
ADDED == 1
UPDATED == 2
DELETED == 3

\* cellStore: the cells GetRandomCell picks from.
CellSource == {"ecgi1", "ecgi2"}

\* ECGI arguments of MoveUE: the cells of the source and one it does not hold.
ECGIs == CellSource \cup {"ecgi9"}

\* rand.Float64() * 100, and the strength arguments of MoveUE
Strengths == {0, 50}

\* rand.Int63n(n): some value of 0..n-1
Int63n(n) == {d \in 0..MaxDraw : d < n} \cup {n - 1}

\* The IMSIs a draw can yield, and the arguments of GetUE, DestroyUE, MoveUE:
\* those and one IMSI no draw yields.
DrawnIMSIs == {d + minIMSI : d \in Int63n(maxIMSI - minIMSI)}
IMSIArgs == DrawnIMSIs \cup {maxIMSI}

Sinks == {"ch1", "ch2"}

NoUE == [IMSI |-> 0, Type |-> "", CellID |-> "", ECGI |-> "", Strength |-> 0,
         CRNTI |-> 0]

\* The model.UE literal of CreateUEs (Location, Rotation, Cells, IsAdmitted
\* are the same for every UE and never change).
NewUE(imsi, ecgi, strength, i) ==
    [IMSI |-> imsi, Type |-> "phone", CellID |-> ecgi, ECGI |-> ecgi,
     Strength |-> strength, CRNTI |-> crntiBase + i]

\* The IMSI of one iteration of CreateUEs: a draw, and on a collision with a
\* live IMSI one more draw, taken as it comes.
DrawIMSI(m) ==
    {IF d1 + minIMSI \in DOMAIN m THEN d2 + minIMSI ELSE d1 + minIMSI :
        d1 \in Int63n(maxIMSI - minIMSI), d2 \in Int63n(maxIMSI - minIMSI)}

\* r.ues[ue.IMSI] = ue
uesPut(m, ue) ==
    [i \in DOMAIN m \cup {ue.IMSI} |-> IF i = ue.IMSI THEN ue ELSE m[i]]

\* Mutation: the entry is left in the map.
uesDelete_Keeps(m, imsi) == m

\* delete(r.ues, imsi)
uesDelete(m, imsi) == [i \in DOMAIN m \ {imsi} |-> m[i]]

\* The loop of CreateUEs from iteration i on: every map it can end with.
RECURSIVE CreateLoop(_, _, _)
CreateLoop(m, i, count) ==
    IF i >= count THEN {m}
    ELSE UNION {CreateLoop(uesPut(m, NewUE(imsi, ecgi, strength, i)), i + 1, count) :
                  <<imsi, ecgi, strength>> \in DrawIMSI(m) \X CellSource \X Strengths}

\* Mutation: the UE is replaced by a new record that carries no type.
ueMove_DropsType(m, imsi, ecgi, strength) ==
    [m EXCEPT ![imsi].ECGI = ecgi, ![imsi].Strength = strength, ![imsi].Type = ""]

\* ue.Cell.ECGI = ecgi; ue.Cell.Strength = strength
ueMove(m, imsi, ecgi, strength) ==
    [m EXCEPT ![imsi].ECGI = ecgi, ![imsi].Strength = strength]

NoEvents == [s \in Sinks |-> <<>>]

\* notify: the event is sent to every watcher of the list, in list order.
RECURSIVE notifyFrom(_, _, _, _)
notifyFrom(evs, ws, imsi, eventType) ==
    IF ws = <<>> THEN evs
    ELSE notifyFrom([evs EXCEPT ![Head(ws)] =
                        Append(@, [UE |-> imsi, Type |-> eventType])],
                    Tail(ws), imsi, eventType)

notify(evs, imsi, eventType) == notifyFrom(evs, watchers, imsi, eventType)

\* removeSomeUEs: the orders in which count of the live UEs can be destroyed
\* (the map's iteration order).
RemovalOrders(m, count) ==
    {order \in [1..count -> DOMAIN m] :
        \A i, j \in 1..count : i # j => order[i] # order[j]}

RECURSIVE notifyAll(_, _, _)
notifyAll(evs, order, eventType) ==
    IF order = <<>> THEN evs
    ELSE notifyAll(notify(evs, Head(order), eventType), Tail(order), eventType)

RECURSIVE uesDeleteAll(_, _)
uesDeleteAll(m, order) ==
    IF order = <<>> THEN m ELSE uesDeleteAll(uesDelete(m, Head(order)), Tail(order))

UEReturn(op, imsi, count, err, ue) ==
    [op |-> op, imsi |-> imsi, count |-> count, err |-> err, ue |-> ue]

InitUE ==
    /\ ues = [i \in {} |-> NoUE]
    /\ watchers = <<>>
    /\ events = NoEvents
    /\ closed = {}
    /\ ueResp = UEReturn("none", 0, 0, "nil", NoUE)

\* No DestroyUE or MoveUE call is inside notify.
NotNotifying == [op |-> "none", UE |-> 0, Type |-> NONE, rest |-> <<>>]

\* No WatchUEs goroutine has been started for the sink.
NotWatching ==
    [pc |-> "none", options |-> <<>>, monitor |-> FALSE, replay |-> FALSE,
     snap |-> <<>>, rest |-> {}, since |-> 0]

InitWatch ==
    /\ notifying = NotNotifying
    /\ watching = [ch \in Sinks |-> NotWatching]
    /\ inbox = NoEvents
    /\ mutations = <<>>

\* No caller holds a UE value: at is what the pointers showed when the call
\* returned, val what they show now, written the ones the caller wrote to.
NotHeld ==
    [op |-> "none", at |-> [i \in {} |-> NoUE], val |-> [i \in {} |-> NoUE],
     live |-> {}, written |-> {}]

\* A call returns the pointers stored in the map under the IMSIs: live are
\* the pointers that are still the map's entries.
Handed(op, m, imsis) ==
    [op |-> op, at |-> [i \in imsis |-> m[i]], val |-> [i \in imsis |-> m[i]],
     live |-> imsis, written |-> {}]

\* What the held pointers show after ue.Cell.ECGI and ue.Cell.Strength of the
\* map's entry were assigned.
heldAssign(h, imsi, ecgi, strength) ==
    [h EXCEPT !.val = [i \in DOMAIN h.val |->
                          IF i = imsi /\ i \in h.live
                          THEN [h.val[i] EXCEPT !.ECGI = ecgi,
                                                !.Strength = strength]
                          ELSE h.val[i]]]

\* The held pointers after the map's entry was deleted or replaced.
heldDetach(h, imsi) == [h EXCEPT !.live = @ \ {imsi}]

\* Every sink is being read, and no caller holds a UE value.
InitCallers ==
    /\ unread = {}
    /\ held = NotHeld

\* r.lock is held exclusively: a DestroyUE or MoveUE call is between its
\* Lock and its deferred Unlock.
Locked == notifying.op # "none"

\* r.lock is held shared: the WatchUEs goroutines between RLock and RUnlock.
RLocked == {ch \in Sinks : watching[ch].pc \in {"append", "replay"}}

\* r.lock.Lock() returns
CanLock == ~Locked /\ RLocked = {}

\* r.lock.RLock() returns
CanRLock == ~Locked

\* GetUECount / Len
GetUECount == Cardinality(DOMAIN ues)

-----------------------------------------------------------------------------
(* SpecE2: actions *)

InitE2 ==
    /\ subs = [k \in {} |-> [Ticker |-> 0]]
    /\ tickers = <<>>
    /\ tasks = <<>>
    /\ sent = <<>>
    /\ chanDone = FALSE
    /\ resp = Returned("none", NoRequest, [Error("nil") EXCEPT !.kind = "none",
                                                              !.handler = "none"])
    /\ crashed = FALSE
    /\ registered = {Kpm}

\* The owner of the store (outside the service model) records a subscription
\* for a key that has none.
StoreAdd(subID) ==
    /\ ~crashed
    /\ subID \notin DOMAIN subs
    /\ subs' = SubscriptionsAdd(subID)
    /\ UNCHANGED <<tickers, tasks, sent, chanDone, resp, crashed, registered>>
    /\ UNCHANGED <<uevars, agvars, wvars, cvars>>

\* e2Agent.RICSubscription, with Client.RICSubscription behind it: on success
\* the report goroutine is launched and the response returned at once.
AgentRICSubscription(request) ==
    /\ ~crashed
    /\ LET r == e2AgentDispatch(request.ranFuncID, KpmRICSubscription(request))
       IN  /\ r.start => Len(tasks) < MaxTasks
           /\ tasks' = IF r.start
                       THEN Append(tasks, [key |-> KeyOf(request),
                                           pc |-> "start", tk |-> 0,
                                           msg |-> 0,
                                           interval |-> getReportPeriod(request).interval])
                       ELSE tasks
           /\ resp' = Returned("RICSubscription", request, r)
    /\ UNCHANGED <<subs, tickers, sent, chanDone, crashed, registered>>
    /\ UNCHANGED <<uevars, agvars, wvars, cvars>>

\* e2Agent.RICSubscriptionDelete, with Client.RICSubscriptionDelete behind it.
AgentRICSubscriptionDelete(request) ==
    /\ ~crashed
    /\ LET r == e2AgentDispatch(request.ranFuncID,
                                KpmRICSubscriptionDelete(request))
       IN  /\ tickers' = TickerStop(tickers, r.stop)
           /\ crashed' = (r.kind = "panic")
           /\ resp' = Returned("RICSubscriptionDelete", request, r)
    /\ UNCHANGED <<subs, tasks, sent, chanDone, registered>>
    /\ UNCHANGED <<uevars, agvars, wvars, cvars>>

\* e2Agent.RICControl, with Client.RICControl behind it.
AgentRICControl(request) ==
    /\ ~crashed
    /\ resp' = Returned("RICControl", request,
                        e2AgentDispatch(request.ranFuncID, KpmRICControl(request)))
    /\ UNCHANGED <<subs, tickers, tasks, sent, chanDone, crashed, registered>>
    /\ UNCHANGED <<uevars, agvars, wvars, cvars>>

\* reportIndication up to the loop: header and message are encoded (the
\* message from the UE count read here), the subscription is looked up, a new
\* ticker is attached to it. Any failure returns.
TaskStart(t, encoded) ==
    /\ ~crashed
    /\ tasks[t].pc = "start"
    /\ IF ~encoded \/ SubscriptionsGet(tasks[t].key) # "nil"
       THEN /\ tasks' = [tasks EXCEPT ![t].pc = "done"]
            /\ UNCHANGED <<subs, tickers>>
       ELSE /\ tickers' = Append(tickers, [key |-> tasks[t].key,
                                           running |-> TRUE, buf |-> 0])
            /\ subs' = [subs EXCEPT ![tasks[t].key].Ticker = Len(tickers) + 1]
            /\ tasks' = [tasks EXCEPT ![t].pc = "select",
                                      ![t].tk = Len(tickers) + 1,
                                      ![t].msg = GetUECount]
    /\ UNCHANGED <<sent, chanDone, resp, crashed, registered>>
    /\ UNCHANGED <<uevars, agvars, wvars, cvars>>

\* The runtime puts a tick in a running ticker's channel (capacity one; a
\* tick that finds it full is dropped).
Tick(i) ==
    /\ ~crashed
    /\ tickers[i].running
    /\ tickers[i].buf = 0
    /\ tickers' = [tickers EXCEPT ![i].buf = 1]
    /\ UNCHANGED <<subs, tasks, sent, chanDone, resp, crashed, registered>>
    /\ UNCHANGED <<uevars, agvars, wvars, cvars>>

\* select, case <-sub.Ticker.C
TaskRecvTick(t) ==
    /\ ~crashed
    /\ tasks[t].pc = "select"
    /\ tickers[tasks[t].tk].buf = 1
    /\ tickers' = [tickers EXCEPT ![tasks[t].tk].buf = 0]
    /\ tasks' = [tasks EXCEPT ![t].pc = "send"]
    /\ UNCHANGED <<subs, sent, chanDone, resp, crashed, registered>>
    /\ UNCHANGED <<uevars, agvars, wvars, cvars>>

\* Mutation: after a failure the task goes back to the select.
TaskSend_Retries(t, outcome) ==
    /\ ~crashed
    /\ tasks[t].pc = "send"
    /\ IF outcome = "ok"
       THEN /\ Len(sent) < MaxSent
            /\ sent' = Append(sent, [key |-> tasks[t].key, msg |-> tasks[t].msg])
            /\ tasks' = [tasks EXCEPT ![t].pc = "select",
                                      ![t].tk = subs[tasks[t].key].Ticker]
       ELSE /\ tasks' = [tasks EXCEPT ![t].pc = "select",
                                      ![t].tk = subs[tasks[t].key].Ticker]
            /\ UNCHANGED sent
    /\ UNCHANGED <<subs, tickers, chanDone, resp, crashed, registered>>
    /\ UNCHANGED <<uevars, agvars, wvars, cvars>>

\* The body of the tick case: build the indication and send it; a failure
\* returns, a success goes back to the select on the subscription's current
\* ticker.
TaskSend(t, outcome) ==
    /\ ~crashed
    /\ tasks[t].pc = "send"
    /\ IF outcome = "ok"
       THEN /\ Len(sent) < MaxSent
            /\ sent' = Append(sent, [key |-> tasks[t].key, msg |-> tasks[t].msg])
            /\ tasks' = [tasks EXCEPT ![t].pc = "select",
                                      ![t].tk = subs[tasks[t].key].Ticker]
       ELSE /\ tasks' = [tasks EXCEPT ![t].pc = "done"]
            /\ UNCHANGED sent
    /\ UNCHANGED <<subs, tickers, chanDone, resp, crashed, registered>>
    /\ UNCHANGED <<uevars, agvars, wvars, cvars>>

\* select, case <-sub.E2Channel.Context().Done()
TaskCtxDone(t) ==
    /\ ~crashed
    /\ tasks[t].pc = "select"
    /\ chanDone
    /\ tickers' = TickerStop(tickers, subs[tasks[t].key].Ticker)
    /\ tasks' = [tasks EXCEPT ![t].pc = "done"]
    /\ UNCHANGED <<subs, sent, chanDone, resp, crashed, registered>>
    /\ UNCHANGED <<uevars, agvars, wvars, cvars>>

\* The session ends.
SessionDone ==
    /\ ~crashed
    /\ ~chanDone
    /\ chanDone' = TRUE
    /\ UNCHANGED <<subs, tickers, tasks, sent, resp, crashed, registered>>
    /\ UNCHANGED <<uevars, agvars, wvars, cvars>>

KpmKeys == {k \in Keys : k[3] = Kpm}

InitAgent ==
    /\ channel = 0
    /\ sessions = <<>>
    /\ agentResp = [op |-> "none", err |-> "nil"]

Init == InitE2 /\ InitUE /\ InitAgent /\ InitWatch /\ InitCallers

NextE2 ==
    \/ \E k \in KpmKeys : StoreAdd(k)
    \/ \E request \in SubscriptionRequests : AgentRICSubscription(request)
    \/ \E request \in DeleteRequests : AgentRICSubscriptionDelete(request)
    \/ \E request \in ControlRequests : AgentRICControl(request)
    \/ \E t \in 1..Len(tasks) : \E encoded \in BOOLEAN : TaskStart(t, encoded)
    \/ \E i \in 1..Len(tickers) : Tick(i)
    \/ \E t \in 1..Len(tasks) : TaskRecvTick(t)
    \/ \E t \in 1..Len(tasks) : \E outcome \in {"ok", "buildErr", "sendErr"} :
           TaskSend(t, outcome)
    \/ \E t \in 1..Len(tasks) : TaskCtxDone(t)
    \/ SessionDone

SpecE2 == Init /\ [][NextE2]_vars

-----------------------------------------------------------------------------
(* SpecReport: the report tasks of two subscriptions on one session, with
   the scheduling the Go runtime gives them. SpecCount: one subscription's
   report task while the UE population changes. *)

ReportRequesterIds == {1, 2}

\* Subscription requests that are admitted, one per requester id.
ReportRequests ==
    [ranFuncID : {Kpm}, instID : InstanceIds, reqID : ReportRequesterIds,
     actions : {OneReport}, period : Periods, malformed : {FALSE}]

ReportDeletes ==
    [ranFuncID : {Kpm}, instID : InstanceIds, reqID : ReportRequesterIds,
     actions : {<<>>}, period : {"none"}, malformed : {FALSE}]

ReportKeys == {KeyOf(request) : request \in ReportRequests}

SendOutcomes == {"ok", "buildErr", "sendErr"}

NextReport ==
    \/ \E k \in ReportKeys : StoreAdd(k)
    \/ \E request \in ReportRequests : AgentRICSubscription(request)
    \/ \E request \in ReportDeletes : AgentRICSubscriptionDelete(request)
    \/ \E t \in 1..Len(tasks) : \E encoded \in BOOLEAN : TaskStart(t, encoded)
    \/ \E i \in 1..Len(tickers) : Tick(i)
    \/ \E t \in 1..Len(tasks) : TaskRecvTick(t)
    \/ \E t \in 1..Len(tasks) : \E outcome \in SendOutcomes : TaskSend(t, outcome)
    \/ \E t \in 1..Len(tasks) : TaskCtxDone(t)
    \/ SessionDone

\* A goroutine that can run does run; a select whose done case is ready over
\* and over takes it in the end (the choice among ready cases is random).
ReportFairness ==
    \A t \in 1..MaxTasks :
        /\ WF_vars(t <= Len(tasks) /\ \E encoded \in BOOLEAN : TaskStart(t, encoded))
        /\ WF_vars(t <= Len(tasks) /\ \E outcome \in SendOutcomes : TaskSend(t, outcome))
        /\ SF_vars(t <= Len(tasks) /\ TaskCtxDone(t))

SpecReport == Init /\ [][NextReport]_vars /\ ReportFairness

-----------------------------------------------------------------------------
(* SpecUE: actions. Each is one call of the registry by a single caller; the
   events it sends are taken from the sinks by their readers. *)

SetUECount(count) ==
    /\ LET delta == Cardinality(DOMAIN ues) - count
       IN  IF delta < 0
           THEN /\ ues' \in CreateLoop(ues, 0, -delta)
                /\ events' = NoEvents
           ELSE \E order \in RemovalOrders(ues, delta) :
                    /\ ues' = uesDeleteAll(ues, order)
                    /\ events' = notifyAll(NoEvents, order, DELETED)
    /\ ueResp' = UEReturn("SetUECount", 0, count, "nil", NoUE)
    /\ UNCHANGED <<watchers, closed>>
    /\ UNCHANGED <<e2vars, agvars, wvars, cvars>>

GetUECountCall ==
    /\ ueResp' = UEReturn("GetUECount", 0, GetUECount, "nil", NoUE)
    /\ events' = NoEvents
    /\ UNCHANGED <<ues, watchers, closed>>
    /\ UNCHANGED <<e2vars, agvars, wvars, cvars>>

CreateUEs(count) ==
    /\ CanLock
    /\ ues' \in CreateLoop(ues, 0, count)
    /\ events' = NoEvents
    /\ ueResp' = UEReturn("CreateUEs", 0, count, "nil", NoUE)
    /\ UNCHANGED <<watchers, closed>>
    /\ UNCHANGED <<e2vars, agvars, wvars, cvars>>

GetUE(imsi) ==
    /\ ueResp' = IF imsi \in DOMAIN ues
                 THEN UEReturn("GetUE", imsi, 0, "nil", ues[imsi])
                 ELSE UEReturn("GetUE", imsi, 0, "NotFound", NoUE)
    /\ events' = NoEvents
    /\ UNCHANGED <<ues, watchers, closed>>
    /\ UNCHANGED <<e2vars, agvars, wvars, cvars>>

DestroyUE(imsi) ==
    /\ IF imsi \in DOMAIN ues
       THEN /\ ues' = uesDelete(ues, imsi)
            /\ events' = notify(NoEvents, imsi, DELETED)
            /\ ueResp' = UEReturn("DestroyUE", imsi, 0, "nil", ues[imsi])
       ELSE /\ ueResp' = UEReturn("DestroyUE", imsi, 0, "NotFound", NoUE)
            /\ events' = NoEvents
            /\ UNCHANGED ues
    /\ UNCHANGED <<watchers, closed>>
    /\ UNCHANGED <<e2vars, agvars, wvars, cvars>>

MoveUE(imsi, ecgi, strength) ==
    /\ IF imsi \in DOMAIN ues
       THEN /\ ues' = ueMove(ues, imsi, ecgi, strength)
            /\ events' = notify(NoEvents, imsi, UPDATED)
            /\ ueResp' = UEReturn("MoveUE", imsi, 0, "nil", NoUE)
       ELSE /\ ueResp' = UEReturn("MoveUE", imsi, 0, "NotFound", NoUE)
            /\ events' = NoEvents
            /\ UNCHANGED ues
    /\ UNCHANGED <<watchers, closed>>
    /\ UNCHANGED <<e2vars, agvars, wvars, cvars>>

WatchOptionLists ==
    {<<>>} \cup {<<o>> : o \in [Replay : BOOLEAN, Monitor : BOOLEAN]}

Range(f) == {f[i] : i \in DOMAIN f}

\* Mutation: every watch monitors.
watchMonitor_Always(options) == TRUE

\* monitor := len(options) == 0 || options[0].Monitor
watchMonitor(options) == Len(options) = 0 \/ options[1].Monitor

\* replay := len(options) > 0 && options[0].Replay
watchReplay(options) == Len(options) > 0 /\ options[1].Replay

\* WatchUEs with its goroutine run to the end. The caller hands in a channel
\* that is open and not yet watched.
WatchUEs(ch, options) ==
    /\ ch \notin closed
    /\ ch \notin Range(watchers)
    /\ LET monitor == watchMonitor(options)
           replay == watchReplay(options)
       IN  /\ watchers' = IF monitor THEN Append(watchers, ch) ELSE watchers
           /\ IF replay
              THEN /\ \E order \in RemovalOrders(ues, Cardinality(DOMAIN ues)) :
                        events' = [NoEvents EXCEPT ![ch] =
                                      [i \in DOMAIN order |->
                                          [UE |-> order[i], Type |-> NONE]]]
                   /\ closed' = IF monitor THEN closed ELSE closed \cup {ch}
              ELSE /\ events' = NoEvents
                   /\ UNCHANGED closed
    /\ ueResp' = UEReturn("WatchUEs", 0, 0, "nil", NoUE)
    /\ UNCHANGED ues
    /\ UNCHANGED <<e2vars, agvars, wvars, cvars>>

NextUE ==
    \/ \E count \in 0..MaxCount : SetUECount(count)
    \/ GetUECountCall
    \/ \E count \in 0..MaxCount : CreateUEs(count)
    \/ \E imsi \in IMSIArgs : GetUE(imsi)
    \/ \E imsi \in IMSIArgs : DestroyUE(imsi)
    \/ \E imsi \in IMSIArgs : \E ecgi \in ECGIs : \E strength \in Strengths :
           MoveUE(imsi, ecgi, strength)
    \/ \E ch \in Sinks : \E options \in WatchOptionLists : WatchUEs(ch, options)

SpecUE == Init /\ [][NextUE]_vars

\* The counts that SetUECount is given while a subscription reports.
ReportedCounts == {0, 1}

NextCount ==
    \/ \E k \in KpmKeys : StoreAdd(k)
    \/ \E request \in ReportRequests : request.reqID \in RequesterIds
                                       /\ AgentRICSubscription(request)
    \/ \E t \in 1..Len(tasks) : \E encoded \in BOOLEAN : TaskStart(t, encoded)
    \/ \E i \in 1..Len(tickers) : Tick(i)
    \/ \E t \in 1..Len(tasks) : TaskRecvTick(t)
    \/ \E t \in 1..Len(tasks) : \E outcome \in SendOutcomes : TaskSend(t, outcome)
    \/ \E t \in 1..Len(tasks) : TaskCtxDone(t)
    \/ SessionDone
    \/ \E count \in ReportedCounts : SetUECount(count)

SpecCount == Init /\ [][NextCount]_vars

-----------------------------------------------------------------------------
(* SpecAgent: Start and Stop of the E2 agent. e2.Connect, the setup exchange
   and Close belong to the transport; what they return is an input. *)

\* What a Start can meet: e2.Connect fails; NewSetupRequest fails; E2Setup
\* returns an error; E2Setup returns a setup failure; the setup succeeds.
StartOutcomes == {"connectErr", "requestErr", "setupErr", "setupFailure", "ok"}

\* The error Start returns.
StartError(outcome) ==
    CASE outcome = "connectErr" -> "Unavailable"
      [] outcome = "requestErr" -> "Invalid"
      [] outcome = "setupErr" -> "Unknown"
      [] outcome = "setupFailure" -> "Invalid"
      [] outcome = "ok" -> "nil"

\* What Close returns on a session that is already closed.
CloseResults == {"nil", "Closed"}

\* e2Agent.Start. A Connect that succeeds opens a session; a.channel is
\* assigned only after a successful setup.
Start(outcome) ==
    /\ IF outcome = "connectErr"
       THEN UNCHANGED <<sessions, channel>>
       ELSE /\ Len(sessions) < MaxSessions
            /\ sessions' = Append(sessions, [open |-> TRUE, closes |-> 0])
            /\ channel' = IF outcome = "ok" THEN Len(sessions) + 1 ELSE channel
    /\ agentResp' = [op |-> "Start", err |-> StartError(outcome)]
    /\ UNCHANGED <<e2vars, uevars, wvars, cvars>>

\* e2Agent.Stop: Close on a.channel unless it is nil; a.channel is left as it
\* is.
Stop(closeResult) ==
    /\ IF channel # 0
       THEN /\ sessions[channel].closes < MaxCloses
            /\ sessions' = [sessions EXCEPT ![channel].open = FALSE,
                                            ![channel].closes = @ + 1]
            /\ agentResp' = [op |-> "Stop",
                             err |-> IF sessions[channel].open THEN "nil"
                                     ELSE closeResult]
       ELSE /\ agentResp' = [op |-> "Stop", err |-> "nil"]
            /\ UNCHANGED sessions
    /\ UNCHANGED channel
    /\ UNCHANGED <<e2vars, uevars, wvars, cvars>>

NextAgent ==
    \/ \E outcome \in StartOutcomes : Start(outcome)
    \/ \E closeResult \in CloseResults : Stop(closeResult)

SpecAgent == Init /\ [][NextAgent]_vars

-----------------------------------------------------------------------------
(* SpecWatch: the UE registry under concurrent callers and watchers. A call
   that waits for r.lock has not begun; DestroyUE and MoveUE hold the lock
   from the map update to the end of notify, one send at a time. *)

\* Mutation: the entry is deleted and no watcher is notified.
DestroyUELock_NoNotify(imsi) ==
    /\ CanLock
    /\ Len(mutations) < MaxMutations
    /\ imsi \in DOMAIN ues
    /\ ues' = uesDelete(ues, imsi)
    /\ notifying' = [op |-> "DestroyUE", UE |-> imsi, Type |-> DELETED,
                      rest |-> <<>>]
    /\ mutations' = Append(mutations, [UE |-> imsi, Type |-> DELETED])
    /\ held' = heldDetach(held, imsi)
    /\ UNCHANGED <<watchers, events, closed, ueResp, watching, inbox, unread>>
    /\ UNCHANGED <<e2vars, agvars>>

\* DestroyUE up to notify's loop: Lock, the entry is deleted.
DestroyUELock(imsi) ==
    /\ CanLock
    /\ Len(mutations) < MaxMutations
    /\ imsi \in DOMAIN ues
    /\ ues' = uesDelete(ues, imsi)
    /\ notifying' = [op |-> "DestroyUE", UE |-> imsi, Type |-> DELETED,
                      rest |-> watchers]
    /\ mutations' = Append(mutations, [UE |-> imsi, Type |-> DELETED])
    /\ held' = heldDetach(held, imsi)
    /\ UNCHANGED <<watchers, events, closed, ueResp, watching, inbox, unread>>
    /\ UNCHANGED <<e2vars, agvars>>

\* MoveUE up to notify's loop: Lock, cell and strength are assigned.
MoveUELock(imsi, ecgi, strength) ==
    /\ CanLock
    /\ Len(mutations) < MaxMutations
    /\ imsi \in DOMAIN ues
    /\ ues' = ueMove(ues, imsi, ecgi, strength)
    /\ notifying' = [op |-> "MoveUE", UE |-> imsi, Type |-> UPDATED,
                      rest |-> watchers]
    /\ mutations' = Append(mutations, [UE |-> imsi, Type |-> UPDATED])
    /\ held' = heldAssign(held, imsi, ecgi, strength)
    /\ UNCHANGED <<watchers, events, closed, ueResp, watching, inbox, unread>>
    /\ UNCHANGED <<e2vars, agvars>>

\* Mutation: a sink whose reader does not take the event is skipped.
NotifySend_SkipsUnread ==
    /\ Locked
    /\ notifying.rest # <<>>
    /\ inbox' = IF Head(notifying.rest) \in unread THEN inbox
                ELSE [inbox EXCEPT ![Head(notifying.rest)] =
                         Append(@, [UE |-> notifying.UE,
                                    Type |-> notifying.Type])]
    /\ notifying' = [notifying EXCEPT !.rest = Tail(@)]
    /\ UNCHANGED <<ues, watchers, events, closed, ueResp, watching, mutations>>
    /\ UNCHANGED <<e2vars, agvars, cvars>>

\* One iteration of notify's loop: watcher.ch <- event, which waits until the
\* sink's reader takes the event.
NotifySend ==
    /\ Locked
    /\ notifying.rest # <<>>
    /\ Head(notifying.rest) \notin unread
    /\ inbox' = [inbox EXCEPT ![Head(notifying.rest)] =
                    Append(@, [UE |-> notifying.UE, Type |-> notifying.Type])]
    /\ notifying' = [notifying EXCEPT !.rest = Tail(@)]
    /\ UNCHANGED <<ues, watchers, events, closed, ueResp, watching, mutations>>
    /\ UNCHANGED <<e2vars, agvars, cvars>>

\* notify's loop is over: the deferred Unlock runs and the call returns.
NotifyReturn ==
    /\ Locked
    /\ notifying.rest = <<>>
    /\ notifying' = NotNotifying
    /\ UNCHANGED <<ues, watchers, events, closed, ueResp, watching, inbox,
                   mutations>>
    /\ UNCHANGED <<e2vars, agvars, cvars>>

\* WatchUEs and its goroutine up to the first lock it holds. The caller hands
\* in a channel that is open and not yet watched. If monitor: RLock, r.watchers
\* is read for the append. If replay only: RLock, the range over r.ues begins.
WatchUEsGo(ch, options) ==
    /\ watching[ch].pc = "none"
    /\ ch \notin closed
    /\ ch \notin Range(watchers)
    /\ (watchMonitor(options) \/ watchReplay(options)) => CanRLock
    /\ watching' = [watching EXCEPT ![ch] =
          [NotWatching EXCEPT
              !.pc = IF watchMonitor(options) THEN "append"
                     ELSE IF watchReplay(options) THEN "replay" ELSE "done",
              !.options = options,
              !.monitor = watchMonitor(options),
              !.replay = watchReplay(options),
              !.snap = IF watchMonitor(options) THEN watchers ELSE <<>>,
              !.rest = IF ~watchMonitor(options) /\ watchReplay(options)
                       THEN DOMAIN ues ELSE {}]]
    /\ UNCHANGED <<ues, watchers, events, closed, ueResp, notifying, inbox,
                   mutations>>
    /\ UNCHANGED <<e2vars, agvars, cvars>>

\* The goroutine, if monitor: the appended slice is stored in r.watchers,
\* RUnlock.
WatchAppendWrite(ch) ==
    /\ watching[ch].pc = "append"
    /\ watchers' = Append(watching[ch].snap, ch)
    /\ watching' = [watching EXCEPT ![ch].pc = "appended", ![ch].snap = <<>>,
                                    ![ch].since = Len(mutations)]
    /\ UNCHANGED <<ues, events, closed, ueResp, notifying, inbox, mutations>>
    /\ UNCHANGED <<e2vars, agvars, cvars>>

\* The goroutine after the append, if replay: RLock, the range over r.ues
\* begins; if not, the goroutine ends.
WatchReplayLock(ch) ==
    /\ watching[ch].pc = "appended"
    /\ IF watching[ch].replay
       THEN /\ CanRLock
            /\ watching' = [watching EXCEPT ![ch].pc = "replay",
                                            ![ch].rest = DOMAIN ues]
       ELSE watching' = [watching EXCEPT ![ch].pc = "done"]
    /\ UNCHANGED <<ues, watchers, events, closed, ueResp, notifying, inbox,
                   mutations>>
    /\ UNCHANGED <<e2vars, agvars, cvars>>

\* One iteration of the replay: ch <- UEEvent{UE: ue, Type: NONE}, in the
\* map's iteration order.
WatchReplaySend(ch) ==
    /\ watching[ch].pc = "replay"
    /\ ch \notin unread
    /\ \E imsi \in watching[ch].rest :
           /\ inbox' = [inbox EXCEPT ![ch] = Append(@, [UE |-> imsi, Type |-> NONE])]
           /\ watching' = [watching EXCEPT ![ch].rest = @ \ {imsi}]
    /\ UNCHANGED <<ues, watchers, events, closed, ueResp, notifying, mutations>>
    /\ UNCHANGED <<e2vars, agvars, cvars>>

\* The replay is over: the sink is closed unless it monitors, the deferred
\* RUnlock runs.
WatchReplayEnd(ch) ==
    /\ watching[ch].pc = "replay"
    /\ watching[ch].rest = {}
    /\ closed' = IF watching[ch].monitor THEN closed ELSE closed \cup {ch}
    /\ watching' = [watching EXCEPT ![ch].pc = "done"]
    /\ UNCHANGED <<ues, watchers, events, ueResp, notifying, inbox, mutations>>
    /\ UNCHANGED <<e2vars, agvars, cvars>>

\* The arguments that the MoveUE calls of the concurrent callers carry.
WatchedMove == <<"ecgi2", 50>>

NextWatch ==
    \/ \E imsi \in DrawnIMSIs : DestroyUELock(imsi)
    \/ \E imsi \in DrawnIMSIs : MoveUELock(imsi, WatchedMove[1], WatchedMove[2])
    \/ NotifySend
    \/ NotifyReturn
    \/ \E ch \in Sinks : \E options \in WatchOptionLists : WatchUEsGo(ch, options)
    \/ \E ch \in Sinks : WatchAppendWrite(ch)
    \/ \E ch \in Sinks : WatchReplayLock(ch)
    \/ \E ch \in Sinks : WatchReplaySend(ch)
    \/ \E ch \in Sinks : WatchReplayEnd(ch)

\* NewUERegistry(count, cellStore) with count = MaxCount: the populations the
\* priming CreateUEs can leave, its draws of cell and strength being the
\* first cell and 0.
PrimedUEs ==
    {m \in CreateLoop([i \in {} |-> NoUE], 0, MaxCount) :
        \A i \in DOMAIN m : m[i].ECGI = "ecgi1" /\ m[i].Strength = 0}

InitPrimed ==
    /\ InitE2
    /\ InitAgent
    /\ InitWatch
    /\ InitCallers
    /\ ues \in PrimedUEs
    /\ watchers = <<>>
    /\ events = NoEvents
    /\ closed = {}
    /\ ueResp = UEReturn("none", 0, 0, "nil", NoUE)

SpecWatch == InitPrimed /\ [][NextWatch]_vars

-----------------------------------------------------------------------------
(* UE Registry, the callers' side: the readers of the sinks, and the UE
   pointers that GetUE, ListAllUEs and ListUEs hand out. *)

\* The reader of a sink of the watcher list stops receiving from it.
ReaderStops(ch) ==
    /\ ch \in Range(watchers)
    /\ ch \notin unread
    /\ unread' = unread \cup {ch}
    /\ UNCHANGED held
    /\ UNCHANGED <<e2vars, uevars, agvars, wvars>>

\* GetUE: RLock, the pointer stored under the IMSI is returned, or nil with
\* NotFound.
GetUEPtr(imsi) ==
    /\ CanRLock
    /\ held' = IF imsi \in DOMAIN ues THEN Handed("GetUE", ues, {imsi})
               ELSE [NotHeld EXCEPT !.op = "GetUE"]
    /\ UNCHANGED unread
    /\ UNCHANGED <<e2vars, uevars, agvars, wvars>>

\* ListAllUEs: RLock, the pointers of every entry are returned.
ListAllUEs ==
    /\ CanRLock
    /\ held' = Handed("ListAllUEs", ues, DOMAIN ues)
    /\ UNCHANGED unread
    /\ UNCHANGED <<e2vars, uevars, agvars, wvars>>

\* ListUEs: RLock, the pointers of the entries of the cell are returned.
ListUEs(ecgi) ==
    /\ CanRLock
    /\ held' = Handed("ListUEs", ues, {i \in DOMAIN ues : ues[i].ECGI = ecgi})
    /\ UNCHANGED unread
    /\ UNCHANGED <<e2vars, uevars, agvars, wvars>>

\* CreateUEs(1) with the given draws of cell and strength: Lock, a new UE is
\* stored under the drawn IMSI; a pointer held to the entry it replaces is no
\* longer the map's.
CreateUEsOnce(ecgi, strength) ==
    /\ CanLock
    /\ \E imsi \in DrawIMSI(ues) :
           /\ ues' = uesPut(ues, NewUE(imsi, ecgi, strength, 0))
           /\ held' = heldDetach(held, imsi)
    /\ UNCHANGED <<watchers, events, closed, ueResp, unread>>
    /\ UNCHANGED <<e2vars, agvars, wvars>>

\* The caller assigns Cell.ECGI and Cell.Strength through a pointer it was
\* handed: the object is the map's entry while the pointer is live.
CallerWrites(imsi, ecgi, strength) ==
    /\ imsi \in DOMAIN held.val
    /\ held' = [held EXCEPT !.val[imsi].ECGI = ecgi,
                            !.val[imsi].Strength = strength,
                            !.written = @ \cup {imsi}]
    /\ ues' = IF imsi \in held.live THEN ueMove(ues, imsi, ecgi, strength)
              ELSE ues
    /\ UNCHANGED <<watchers, events, closed, ueResp, unread>>
    /\ UNCHANGED <<e2vars, agvars, wvars>>

\* Destroy and move calls against monitoring watchers whose readers may stop,
\* with get, list and create calls of other callers.
NextStall ==
    \/ \E imsi \in DrawnIMSIs : DestroyUELock(imsi)
    \/ \E imsi \in DrawnIMSIs : MoveUELock(imsi, WatchedMove[1], WatchedMove[2])
    \/ NotifySend
    \/ NotifyReturn
    \/ \E ch \in Sinks : WatchUEsGo(ch, <<>>)
    \/ \E ch \in Sinks : WatchAppendWrite(ch)
    \/ \E ch \in Sinks : WatchReplayLock(ch)
    \/ \E ch \in Sinks : ReaderStops(ch)
    \/ GetUEPtr(minIMSI)
    \/ ListUEs(WatchedMove[1])
    \/ CreateUEsOnce("ecgi1", 0)

SpecStall == InitPrimed /\ [][NextStall]_vars

\* Get and list calls, the caller's writes through what they returned, and
\* destroy and move calls (no watcher is registered).
NextRef ==
    \/ \E imsi \in IMSIArgs : GetUEPtr(imsi)
    \/ ListAllUEs
    \/ \E ecgi \in CellSource : ListUEs(ecgi)
    \/ \E imsi \in DrawnIMSIs : DestroyUELock(imsi)
    \/ \E imsi \in DrawnIMSIs, ecgi \in CellSource, strength \in Strengths :
           MoveUELock(imsi, ecgi, strength)
    \/ NotifyReturn
    \/ \E imsi \in DrawnIMSIs, ecgi \in CellSource, strength \in Strengths :
           CallerWrites(imsi, ecgi, strength)

SpecRef == InitPrimed /\ [][NextRef]_vars

-----------------------------------------------------------------------------
(* Claims about the KPM service model and the agent *)

IsCall(r, op) == r.op = op /\ r.handler = "kpm" /\ ~r.request.malformed

ReportActionIds(actions) ==
    LET reports == SelectSeq(actions, LAMBDA a : a.type = "REPORT")
    IN  [i \in 1..Len(reports) |-> reports[i].id]

AllInsertOrPolicy(actions) ==
    \A i \in 1..Len(actions) : actions[i].type \in {"INSERT", "POLICY"}

Admissible(request) ==
    /\ ReportActionIds(request.actions) # <<>>
    /\ request.period \in Periods

\* C1: a subscribe with at least one report action and a parseable period
\* returns a success response (no failure, nil error) whose admitted list is
\* exactly the ids of the request's report actions, and from then on the
\* Subscription Registry holds a record under the derived key.
C1_SubscribeStoresSubscription ==
    (IsCall(resp, "RICSubscription") /\ Admissible(resp.request))
        => /\ resp.kind = "response"
           /\ resp.err = "nil"
           /\ resp.accepted = ReportActionIds(resp.request.actions)
           /\ KeyOf(resp.request) \in DOMAIN subs

LiveTasks(k) ==
    {t \in 1..Len(tasks) : tasks[t].key = k /\ tasks[t].pc \in {"select", "send"}}

RunningTickers(k) ==
    {i \in 1..Len(tickers) : tickers[i].key = k /\ tickers[i].running}

SentFor(k) == SelectSeq(sent, LAMBDA m : m.key = k)

\* C3: a delete for a key the registry holds returns a delete-success
\* response and leaves the subscription's timer stopped, and once it has
\* returned no further indication of that subscription is sent; a delete for
\* a key the registry does not hold returns NotFound and no response.
C3_DeleteStopsIndications ==
    /\ [][(resp' # resp /\ IsCall(resp', "RICSubscriptionDelete"))
            => IF KeyOf(resp'.request) \in DOMAIN subs
               THEN /\ resp'.kind = "response"
                    /\ tickers'[subs[KeyOf(resp'.request)].Ticker].running = FALSE
               ELSE /\ resp'.kind = "error"
                    /\ resp'.err = "NotFound"]_vars
    /\ [][(IsCall(resp, "RICSubscriptionDelete") /\ resp.kind = "response")
            => SentFor(KeyOf(resp.request))' = SentFor(KeyOf(resp.request))]_vars

\* C4: a successful delete removes the subscription from the registry, so a
\* lookup of the key right after it (and with it a second delete) misses.
C4_DeleteRemovesSubscription ==
    [][(resp' # resp /\ IsCall(resp', "RICSubscriptionDelete")
         /\ resp'.kind = "response")
        => KeyOf(resp'.request) \notin DOMAIN subs']_vars

\* C5: no subscription key ever has more than one live report task or more
\* than one running timer.
C5_OneTaskPerKey ==
    \A k \in Keys : /\ Cardinality(LiveTasks(k)) <= 1
                     /\ Cardinality(RunningTickers(k)) <= 1

HandlerResult(op, request) ==
    CASE op = "RICSubscription" -> KpmRICSubscription(request)
      [] op = "RICSubscriptionDelete" -> KpmRICSubscriptionDelete(request)
      [] op = "RICControl" -> KpmRICControl(request)

\* C6: a request for a function id with a registered service model returns
\* exactly what that model's handler returns for it; a request for any other
\* function id returns NotSupported, no handler runs and nothing the handlers
\* own changes.
C6_DispatchByFunctionId ==
    [][resp' # resp
        => IF resp'.request.ranFuncID \in registered
           THEN resp' = Returned(resp'.op, resp'.request,
                                 HandlerResult(resp'.op, resp'.request))
           ELSE /\ resp'.kind = "error"
                /\ resp'.err = "NotSupported"
                /\ resp'.handler = "none"
                /\ UNCHANGED <<subs, tickers, tasks, sent, crashed>>]_vars

\* C6: reached - a delete for an unregistered function id, sent while the
\* registry holds a subscription, got NotSupported from the agent itself.
C6_Witness ==
    /\ resp.op = "RICSubscriptionDelete"
    /\ resp.request.ranFuncID \notin registered
    /\ resp.handler = "none"
    /\ resp.err = "NotSupported"
    /\ DOMAIN subs # {}

-----------------------------------------------------------------------------
(* Claims about the UE registry *)

\* C7: after SetUECount(n) a count read gives exactly n.
C7_SetCountReachesCount ==
    ueResp.op = "SetUECount" => Cardinality(DOMAIN ues) = ueResp.count

InBand(imsi) == minIMSI <= imsi /\ imsi <= maxIMSI

\* C8: CreateUEs(n) adds exactly n UEs, each with an IMSI of the band that no
\* UE live before the call had, and keeps every UE that was live before the
\* call as it was.
C8_CreateAddsExactly ==
    [][\A count \in 0..MaxCount :
          (ueResp'.op = "CreateUEs" /\ CreateUEs(count))
              => /\ Cardinality(DOMAIN ues') = Cardinality(DOMAIN ues) + count
                 /\ \A imsi \in DOMAIN ues :
                        imsi \in DOMAIN ues' /\ ues'[imsi] = ues[imsi]
                 /\ \A imsi \in DOMAIN ues' : InBand(imsi)]_vars

Lookup(m, imsi) == IF imsi \in DOMAIN m THEN "nil" ELSE "NotFound"

\* C9: a DestroyUE of a live IMSI succeeds and leaves the IMSI unknown to a
\* lookup; GetUE and DestroyUE of an IMSI that is not live return NotFound,
\* leave the population as it was and send no event on any sink.
C9_DestroyThenNotFound ==
    [][\A imsi \in IMSIArgs :
          /\ (ueResp'.imsi = imsi /\ DestroyUE(imsi) /\ imsi \in DOMAIN ues)
                => /\ ueResp'.err = "nil"
                   /\ Lookup(ues', imsi) = "NotFound"
          /\ (ueResp'.imsi = imsi /\ (DestroyUE(imsi) \/ GetUE(imsi))
                 /\ imsi \notin DOMAIN ues)
                => /\ ueResp'.err = "NotFound"
                   /\ ueResp'.ue = NoUE
                   /\ ues' = ues
                   /\ \A ch \in Sinks : events'[ch] = <<>>]_vars

\* C9: reached - a DestroyUE of a drawable but not live IMSI returned NotFound
\* while UEs are live and a watcher is monitoring.
C9_Witness ==
    /\ ueResp.op = "DestroyUE"
    /\ ueResp.err = "NotFound"
    /\ ueResp.imsi \in DrawnIMSIs
    /\ DOMAIN ues # {}
    /\ watchers # <<>>

\* C10: a MoveUE of a live IMSI sets that UE's ECGI and strength to the
\* arguments and changes nothing else: its IMSI, type, CRNTI and cell id, all
\* other UEs and the population are as before; a MoveUE of an IMSI that is
\* not live returns NotFound, changes nothing and sends no event.
C10_MoveChangesCellOnly ==
    [][\A imsi \in IMSIArgs : \A ecgi \in ECGIs : \A strength \in Strengths :
          (ueResp'.op = "MoveUE" /\ ueResp'.imsi = imsi
           /\ MoveUE(imsi, ecgi, strength))
              => IF imsi \in DOMAIN ues
                 THEN /\ ueResp'.err = "nil"
                      /\ DOMAIN ues' = DOMAIN ues
                      /\ \A other \in DOMAIN ues \ {imsi} : ues'[other] = ues[other]
                      /\ ues'[imsi].ECGI = ecgi
                      /\ ues'[imsi].Strength = strength
                      /\ ues'[imsi].IMSI = ues[imsi].IMSI
                      /\ ues'[imsi].Type = ues[imsi].Type
                      /\ ues'[imsi].CRNTI = ues[imsi].CRNTI
                      /\ ues'[imsi].CellID = ues[imsi].CellID
                 ELSE /\ ueResp'.err = "NotFound"
                      /\ ues' = ues
                      /\ \A ch \in Sinks : events'[ch] = <<>>]_vars

\* C10: reached - a MoveUE succeeded among several UEs, moved the UE to a cell
\* other than its first one, with a watcher monitoring.
C10_Witness ==
    /\ ueResp.op = "MoveUE"
    /\ ueResp.err = "nil"
    /\ Cardinality(DOMAIN ues) > 1
    /\ ues[ueResp.imsi].ECGI # ues[ueResp.imsi].CellID
    /\ watchers # <<>>

-----------------------------------------------------------------------------
(* Claims about the watchers of the UE registry *)

\* The ADDED, UPDATED and DELETED events a sink's reader has received.
LiveEvents(ch) == SelectSeq(inbox[ch], LAMBDA e : e.Type # NONE)

\* The call inside notify has not yet sent its event to the sink.
Pending(ch) == IF Locked /\ ch \in Range(notifying.rest) THEN 1 ELSE 0

\* C11: a sink of the live watcher list has received, for the successful
\* destroys and moves made since it joined the list, exactly one DELETED or
\* UPDATED event each, naming the UE of the call, in the order in which the
\* calls took the registry's lock (the call now inside notify may still owe
\* it its event).
C11_EventsOncePerMutationInOrder ==
    \A ch \in Range(watchers) :
        LiveEvents(ch) = SubSeq(mutations, watching[ch].since + 1,
                                Len(mutations) - Pending(ch))

\* C11: reached - two sinks are in the watcher list, no call is inside
\* notify, and one of them has received an UPDATED and then a DELETED event.
C11_Witness ==
    /\ Len(watchers) = 2
    /\ ~Locked
    /\ \E ch \in Range(watchers) :
           /\ Len(LiveEvents(ch)) = 2
           /\ LiveEvents(ch)[1].Type = UPDATED
           /\ LiveEvents(ch)[2].Type = DELETED

\* The watch was called with replay=true and monitor=false.
ReplayOnly(ch) ==
    /\ watching[ch].pc # "none"
    /\ Len(watching[ch].options) > 0
    /\ watching[ch].options[1].Replay
    /\ ~watching[ch].options[1].Monitor

\* The events are one NONE-tagged event for each UE of the map, and no other.
OneNonePerUE(evs, m) ==
    /\ Len(evs) = Cardinality(DOMAIN m)
    /\ {evs[i].UE : i \in 1..Len(evs)} = DOMAIN m
    /\ \A i \in 1..Len(evs) : evs[i].Type = NONE

\* C12: a watch with replay=true and monitor=false is never in the live
\* watcher list; when its replay ends the sink has received exactly one
\* NONE-tagged event for each UE held then and nothing else, and is closed;
\* from then on the sink receives nothing.
C12_ReplayOnlyClosesAfterSnapshot ==
    /\ [](\A ch \in Sinks : ReplayOnly(ch) => ch \notin Range(watchers))
    /\ [][\A ch \in Sinks :
             (ReplayOnly(ch) /\ watching[ch].pc # "done"
              /\ watching'[ch].pc = "done")
                 => /\ OneNonePerUE(inbox'[ch], ues)
                    /\ ch \in closed']_vars
    /\ [][\A ch \in Sinks :
             (ReplayOnly(ch) /\ watching[ch].pc = "done")
                 => inbox'[ch] = inbox[ch]]_vars

\* C12: reached - a replay-only sink is closed after two NONE events, and a
\* UE it was told of has been destroyed since.
C12_Witness ==
    \E ch \in Sinks :
        /\ ReplayOnly(ch)
        /\ ch \in closed
        /\ Len(inbox[ch]) = 2
        /\ Cardinality(DOMAIN ues) < 2
        /\ watchers # <<>>

\* The sends of the event on the sink made by the last registry call.
SendsOf(ch, evs, imsi, eventType) ==
    {i \in 1..Len(evs[ch]) : evs[ch][i] = [UE |-> imsi, Type |-> eventType]}

\* C13: every sink of the live watcher list is sent exactly one ADDED event
\* for each UE that a CreateUEs, or a SetUECount that grows the population,
\* puts in the registry.
C13_MonitorReceivesAdded ==
    [][ueResp'.op \in {"CreateUEs", "SetUECount"}
        => \A ch \in Range(watchers) : \A imsi \in DOMAIN ues' :
              (imsi \notin DOMAIN ues \/ ues'[imsi] # ues[imsi])
                  => Cardinality(SendsOf(ch, events', imsi, ADDED)) = 1]_vars

\* C14: the serving cell of every live UE is a cell of the cell source.
C14_CellReferenceExists ==
    \A imsi \in DOMAIN ues : ues[imsi].ECGI \in CellSource

-----------------------------------------------------------------------------
(* Claims about Start and Stop of the agent *)

\* C15: a Stop closes the session the agent holds if that session is open,
\* and returns no error; a Stop when the agent never opened a session, or when
\* its session is already closed, returns no error and makes no further close
\* of any session.
C15_StopIsIdempotent ==
    [][\A closeResult \in CloseResults :
          Stop(closeResult)
              => IF channel # 0 /\ sessions[channel].open
                 THEN /\ ~sessions'[channel].open
                      /\ agentResp'.err = "nil"
                 ELSE /\ agentResp'.err = "nil"
                      /\ sessions' = sessions]_vars

\* C16: when the last call was a Start that returned an error, the agent
\* holds no session and no session is open; when it was a Start that
\* returned no error, the agent holds a session and that session is open.
C16_StartLeavesDisconnectedOrActive ==
    agentResp.op = "Start"
        => IF agentResp.err # "nil"
           THEN /\ channel = 0
                /\ \A i \in 1..Len(sessions) : ~sessions[i].open
           ELSE /\ channel # 0
                /\ sessions[channel].open

-----------------------------------------------------------------------------
(* Claims about the report tasks *)

\* C17: every indication a report task sends carries the identifiers of its
\* subscription and a message built from the UE count the registry has at
\* that tick.
C17_IndicationCarriesCurrentCount ==
    [][sent' # sent
        => \E t \in 1..Len(tasks) :
              /\ tasks[t].pc = "send"
              /\ sent' = Append(sent, [key |-> tasks[t].key, msg |-> GetUECount])]_vars

\* C18: once the session's context is done, every report task that is
\* running then comes to its end, and when it ends the timer it waits on is
\* stopped.
C18_SessionDoneEndsTasks ==
    /\ \A t \in 1..MaxTasks :
           (chanDone /\ t <= Len(tasks))
               ~> (crashed \/ (t <= Len(tasks) /\ tasks[t].pc = "done"))
    /\ [][\A t \in 1..Len(tasks) :
             (chanDone /\ tasks[t].pc \in {"select", "send"}
              /\ tasks'[t].pc = "done")
                 => ~tickers'[tasks[t].tk].running]_vars

\* C19: a report task that has taken a tick and sends no indication for it
\* (the build or the send failed) ends there and never runs or sends again;
\* the step changes no other task and no ticker, and an indication is only
\* ever sent by a task that has taken a tick and goes on.
C19_FailureEndsOnlyThatTask ==
    /\ [][\A t \in 1..Len(tasks) :
             (tasks[t].pc = "send" /\ tasks'[t] # tasks[t] /\ sent' = sent)
                 => /\ tasks'[t].pc = "done"
                    /\ tickers' = tickers
                    /\ \A u \in 1..Len(tasks) : u # t => tasks'[u] = tasks[u]]_vars
    /\ [][\A t \in 1..Len(tasks) :
             tasks[t].pc = "done" => tasks'[t] = tasks[t]]_vars
    /\ [][sent' # sent
            => \E t \in 1..Len(tasks) :
                  /\ tasks[t].pc = "send"
                  /\ tasks'[t].pc = "select"
                  /\ SentFor(tasks[t].key)' # SentFor(tasks[t].key)]_vars

\* C19: reached - with the session open, a task has ended at a failed tick
\* (its ticker still runs) and a task of another subscription has taken a
\* tick and sent an indication.
C19_Witness ==
    /\ ~chanDone
    /\ \E t, u \in 1..Len(tasks) :
           /\ tasks[t].pc = "done"
           /\ tasks[t].tk # 0
           /\ tickers[tasks[t].tk].running
           /\ tasks[u].key # tasks[t].key
           /\ tasks[u].pc = "send"
           /\ SentFor(tasks[u].key) # <<>>
           /\ SentFor(tasks[t].key) = <<>>

\* C20: while the last request answered is a successful delete and the
\* session is open, a report task of the deleted subscription takes no tick
\* and does not end.
C20_DeleteLeavesTaskBlocked ==
    [][(IsCall(resp, "RICSubscriptionDelete") /\ resp.kind = "response"
        /\ resp' = resp /\ ~chanDone /\ ~chanDone')
        => \A t \in 1..Len(tasks) :
              (tasks[t].key = KeyOf(resp.request)
               /\ tasks[t].pc \in {"select", "send"})
                  => /\ tasks'[t].pc # "done"
                     /\ tasks[t].pc = "select" => tasks'[t].pc = "select"]_vars

-----------------------------------------------------------------------------
(* Claims about the registry's locking and the values it hands out *)

\* The watch was called with replay=true and monitor=true.
ReplayAndMonitor(ch) ==
    /\ watching[ch].pc # "none"
    /\ Len(watching[ch].options) > 0
    /\ watching[ch].options[1].Replay
    /\ watching[ch].options[1].Monitor

\* C21: the sink of a watch with replay=true and monitor=true receives no
\* NONE-tagged (replay) event after an ADDED, UPDATED or DELETED event: the
\* replay of the UEs held comes first, under every interleaving with destroy
\* and move calls.
C21_ReplayPrecedesLiveEvents ==
    \A ch \in Sinks :
        ReplayAndMonitor(ch)
            => \A i, j \in 1..Len(inbox[ch]) :
                   (i < j /\ inbox[ch][i].Type # NONE)
                       => inbox[ch][j].Type # NONE

\* The request has a report action and a period that cannot be parsed.
UnparseablePeriod(request) ==
    /\ ReportActionIds(request.actions) # <<>>
    /\ request.period \notin Periods

Appending == {ch \in Sinks : watching[ch].pc = "append"}

\* The sinks whose goroutine has completed its monitor registration.
Registered(ch) ==
    /\ watching[ch].monitor
    /\ watching[ch].pc \in {"appended", "replay", "done"}

\* C23: the watcher list is written under mutual exclusion - while one
\* registration is between its read and its write of the list no other
\* operation is inside its own access to the list - and every monitor
\* registration that has completed is in the watcher list.
C23_AccessesHoldTheLock ==
    /\ Cardinality(Appending) <= 1
    /\ \A ch \in Sinks : Registered(ch) => ch \in Range(watchers)

\* A DestroyUE or MoveUE call is inside notify, at the send to a sink whose
\* reader has stopped receiving.
Stuck ==
    /\ Locked
    /\ notifying.rest # <<>>
    /\ Head(notifying.rest) \in unread

\* C24: a sink receives an UPDATED or DELETED event only in a step of a call
\* that holds the registry's exclusive lock before and after the send; and
\* once a destroy or move call is at the send to a sink that is no longer
\* read, it stays there, and no get, list, create, destroy or move takes
\* effect: the map, the watcher list, the values handed out and the calls
\* made stay as they are.
C24_UnreadSinkBlocksRegistry ==
    /\ [][(\E ch \in Sinks : LiveEvents(ch)' # LiveEvents(ch))
            => (Locked /\ Locked')]_vars
    /\ [][Stuck => /\ Stuck'
                   /\ notifying' = notifying
                   /\ ues' = ues
                   /\ watchers' = watchers
                   /\ held' = held
                   /\ mutations' = mutations]_vars

\* C24: reached - the second destroy or move call has sent its event to the
\* first of two sinks and is at the send to the second, whose reader has
\* stopped, after a get call had returned a UE.
C24_Witness ==
    /\ Stuck
    /\ Len(watchers) = 2
    /\ Len(notifying.rest) = 1
    /\ Len(mutations) = 2
    /\ held.op = "GetUE"
    /\ held.live # {}

\* C25: what a caller sees through a UE value that get, listAll or
\* listByCell handed it, and that it has not written itself, has the cell
\* and the strength it had when the call returned, whatever moves and
\* destroys were made since; and a caller's write to a value it was handed
\* leaves the registry's map as it is.
C25_HandedValuesAreCopies ==
    /\ [](\A i \in DOMAIN held.val \ held.written :
             /\ held.val[i].ECGI = held.at[i].ECGI
             /\ held.val[i].Strength = held.at[i].Strength)
    /\ [][(mutations' = mutations /\ held' # held /\ held'.written # {})
            => ues' = ues]_vars

-----------------------------------------------------------------------------
(* Claims about a delete that overtakes the start of the report task *)

\* A report task of the key has been launched and has not yet attached its
\* ticker.
PendingStart(k) ==
    \E t \in 1..Len(tasks) : tasks[t].key = k /\ tasks[t].pc = "start"

\* C26: a delete of a key the registry holds, made while a report task of the
\* key has not yet attached its ticker, returns the delete response without
\* a panic; and while that delete is the last request answered, a task of the
\* key that had not attached a ticker then does not attach one.
C26_EarlyDeleteIsSafe ==
    /\ [][(resp' # resp /\ IsCall(resp', "RICSubscriptionDelete")
             /\ KeyOf(resp'.request) \in DOMAIN subs
             /\ PendingStart(KeyOf(resp'.request)))
            => /\ resp'.kind = "response"
               /\ ~crashed']_vars
    /\ [][(IsCall(resp, "RICSubscriptionDelete") /\ resp.kind = "response"
             /\ resp' = resp)
            => \A t \in 1..Len(tasks) :
                  (tasks[t].key = KeyOf(resp.request) /\ tasks[t].pc = "start")
                      => tasks'[t].pc # "select"]_vars

====
